---- MODULE Spec2Model ----
(***************************************************************************)
(* A model of SmartArray<T> and SmartArrayReverse<T> (src/SmartArray.h),   *)
(* instantiated at T = int as in src/example.cpp.                          *)
(*                                                                         *)
(* The heap is explicit: a buffer is a block with an address, the          *)
(* containers hold addresses, and new[] / delete[] act on blocks.  Each    *)
(* member function is an operator from a "world" (heap, the object, the    *)
(* process status, the faults of the call) to the SET of worlds the call   *)
(* can end in; undefined behaviour is a choice among its outcomes:         *)
(*   - a read past the end of a block, or of a released block, yields any  *)
(*     value of T (the cell is marked indeterminate);                      *)
(*   - a read or write through the null pointer ends the process;          *)
(*   - a write past the end of a block, the release of a pointer that no   *)
(*     allocation returned, and a second release of a block either end the *)
(*     process or go unnoticed (the fault is recorded in last.faults).     *)
(***************************************************************************)
EXTENDS Integers, Sequences, FiniteSets, TLC

\* ---------------------------------------------------------------- bounds
\* Largest block the model allocates, in cells.
MaxCells == 3
\* Number of heap addresses.
MaxBlocks == 4
\* Largest length given to the sized constructor in Init.
MaxInit == 2
\* Largest length reached by the append-only specification SpecGrow.
MaxGrow == 11
\* Longest array literal handed to from_arr.
MaxLit == 2
\* Largest index or count, in magnitude, the callers pass.
MaxIndex == 3

\* ------------------------------------------------------------- constants
\* size_t and int arithmetic is modular.  TLC's integers are 32 bits wide,
\* so one modulus 2^30 stands for both 2^64 (size_t) and 2^32 (int): every
\* length and index of the model is below 2^29 in magnitude, where the
\* comparisons and conversions of the code give the same results.
SizeMod == 2^30
\* sizeof(int): the element type of src/example.cpp.
SizeofT == 4
NULL == 0

\* The values of T the model uses: 0 is T{}.  Callers store any of them.
T == 0..1
Values == T
Addr == 1..MaxBlocks

\* A cell of a buffer: its value, and whether the value is determinate
\* (written, value-initialized or copied from a determinate cell).
Cell(x) == [v |-> x, init |-> TRUE]
Junk == {[v |-> x, init |-> FALSE] : x \in T}
JunkSeqs(n) == IF n <= 0 THEN {<<>>} ELSE [1..n -> Junk]

Min(x, y) == IF x < y THEN x ELSE y
\* s[m..n], empty when n < m.
Sub(s, m, n) == IF n < m THEN <<>> ELSE SubSeq(s, m, n)

\* Conversions int -> size_t and size_t -> int.
ToSize(i) == i % SizeMod
ToInt(u) == IF u % SizeMod >= SizeMod \div 2 THEN (u % SizeMod) - SizeMod ELSE u % SizeMod

VARIABLES
    heap,    \* Addr -> [live, cells]: the blocks new[] returned
    a,       \* the container under test: [m_data, length]
    b,       \* a second container: [m_data, length]
    rev,     \* the SmartArrayReverse over a: [built, m_data, length] (its iter)
    out,     \* the caller's pointer returned by a.to_arr()
    status,  \* "running", "terminated", "bad_alloc", "crashed", "exited"
    last,    \* the last call: [op, index, val, len, faults, r]; r is the
             \* slot [off, cell] an operator[] referred to
    log      \* the values appended to a, while a's whole history is
             \* SmartArray() followed by appends; NoLog otherwise

vars == <<heap, a, b, rev, out, status, last, log>>

\* ------------------------------------------------------------------ heap
EmptyHeap == [k \in Addr |-> [live |-> FALSE, cells |-> <<>>]]
FreeAddrs(h) == {k \in Addr : ~h[k].live}
NewAddr(h) == CHOOSE k \in FreeAddrs(h) : \A j \in FreeAddrs(h) : k <= j
\* new T[n] with the given contents, at the lowest free address (an address
\* is free again once its block is released, as with a real allocator).
New(h, cells) == [h EXCEPT ![NewAddr(h)] = [live |-> TRUE, cells |-> cells]]
\* delete[] p of a live block (delete[] NULL does nothing).
Delete(h, p) == IF p = NULL THEN h ELSE [h EXCEPT ![p] = [live |-> FALSE, cells |-> <<>>]]
\* new T[n] throws when n * sizeof(T) does not fit size_t.
AllocFails(n) == n < 0 \/ n >= SizeMod \div SizeofT
\* The model has no address left for a block: the call is not taken.
NoRoom(h) == FreeAddrs(h) = {}

\* The sequences a read of n cells from p can yield: the block's cells, then
\* any values for the cells past its end; any values at all once released.
ReadRange(h, p, n) ==
    IF n <= 0 THEN {<<>>}
    ELSE IF ~h[p].live THEN JunkSeqs(n)
    ELSE LET k == Min(n, Len(h[p].cells))
         IN  {Sub(h[p].cells, 1, k) \o j : j \in JunkSeqs(n - k)}

\* ----------------------------------------------------------------- worlds
\* r is the value the call returns (a cell or a pointer).
World(h, o, st, f) == [heap |-> h, o |-> o, st |-> st, faults |-> f, r |-> 0]
Obj(p, n) == [m_data |-> p, length |-> n]
Stop(w, st) == [w EXCEPT !.st = st]
Fault(w, f) == [w EXCEPT !.faults = @ \cup {f}]
FaultIf(w, c, f) == IF c THEN Fault(w, f) ELSE w
\* Undefined behaviour the allocator or the hardware may or may not catch.
MayCrash(w, f) == {Stop(Fault(w, f), "crashed"), Fault(w, f)}
\* Sequencing: F continues every world that is still running.
Then(ws, F(_)) == UNION {IF w.st = "running" THEN F(w) ELSE {w} : w \in ws}

\* ------------------------------------------------------------- SmartArray
\* SmartArray(): no buffer, length 0.
DefaultCtor(h) == World(h, Obj(NULL, 0), "running", {})

\* SmartArray(size_t length): new T[length]{}.
LengthCtor(h, n) == World(New(h, [i \in 1..n |-> Cell(0)]), Obj(NewAddr(h), n), "running", {})

\* erase(): forgets the buffer without releasing it.
erase(w) == [w EXCEPT !.o = Obj(NULL, 0)]

\* The condition of checkIndexOrSize, in size_t arithmetic: -length and index
\* are both converted to size_t before they are compared.
CheckFails(length, index) ==
    ToSize(index) < ToSize(-length) /\ ToSize(index) >= length

\* checkIndexOrSize: on failure delete[] m_data, then throw; with no active
\* exception, which calls std::terminate.
checkIndexOrSize(w, index) ==
    IF CheckFails(w.o.length, index)
    THEN {World(Delete(w.heap, w.o.m_data), w.o, "terminated", w.faults)}
    ELSE {w}

\* delete[] p: nothing for null, a release for a live block, and a second
\* release (undefined) for a block already released.
Release(w, p) ==
    IF p = NULL THEN {w}
    ELSE IF w.heap[p].live THEN {[w EXCEPT !.heap = Delete(@, p)]}
    ELSE MayCrash(w, "double_free")

\* Where resize's new T[new_sz] can land: at the lowest free address; when
\* the old buffer p was already released (pop(0)), at p itself or elsewhere.
ResizeAddrs(h, p) ==
    IF h[p].live THEN {NewAddr(h)}
    ELSE {p} \cup (IF FreeAddrs(h) = {p} THEN {}
                   ELSE {NewAddr([h EXCEPT ![p].live = TRUE])})

\* resize(new_sz): std::copy reads new_sz cells of the old buffer, whatever
\* its size; then delete[] m_data.  When the new block sits where the
\* released old buffer sat, that delete[] releases the new block itself.
resize(w, new_sz) ==
    IF new_sz = 0 THEN {erase(w)}
    ELSE IF AllocFails(new_sz) THEN {Stop(w, "bad_alloc")}
    ELSE IF NoRoom(w.heap) THEN {}
    ELSE IF w.o.m_data = NULL THEN {Stop(w, "crashed")}
    ELSE LET p == w.o.m_data
             f == IF ~w.heap[p].live THEN {"use_after_free"}
                  ELSE IF new_sz > Len(w.heap[p].cells) THEN {"oob_read"}
                  ELSE {}
         IN  UNION {
               LET w1 == World([w.heap EXCEPT ![arr] = [live |-> TRUE, cells |-> cells]],
                               Obj(arr, new_sz), "running", w.faults \cup f)
               IN  IF arr = p THEN {[w1 EXCEPT !.heap = Delete(@, p)]}
                   ELSE Release([w1 EXCEPT !.heap[p] = w.heap[p]], p)
               : arr \in ResizeAddrs(w.heap, p), cells \in ReadRange(w.heap, p, new_sz)}

\* m_data[idx] = cell.
store(w, idx, cell) ==
    LET p == w.o.m_data
    IN  IF p = NULL THEN {Stop(w, "crashed")}
        ELSE IF ~w.heap[p].live THEN MayCrash(w, "use_after_free")
        ELSE IF idx < 0 \/ idx >= Len(w.heap[p].cells) THEN MayCrash(w, "oob_write")
        ELSE {[w EXCEPT !.heap[p].cells[idx + 1] = cell]}

\* A read of m_data[idx]: the slot and the cell read are left in r.
Slot(idx, cell) == [off |-> idx, cell |-> cell]
load(w, idx) ==
    LET p == w.o.m_data
    IN  IF p = NULL THEN {Stop(w, "crashed")}
        ELSE IF ~w.heap[p].live
             THEN {[Fault(w, "use_after_free") EXCEPT !.r = Slot(idx, j)] : j \in Junk}
        ELSE IF idx < 0 \/ idx >= Len(w.heap[p].cells)
             THEN {[Fault(w, "oob_read") EXCEPT !.r = Slot(idx, j)] : j \in Junk}
        ELSE {[w EXCEPT !.r = Slot(idx, w.heap[p].cells[idx + 1])]}

\* std::copy(src, src + Len(src), m_data + off): the cells that fit the
\* block are written; writing the others is undefined.
storeRange(w, off, src) ==
    LET p == w.o.m_data
    IN  IF Len(src) = 0 THEN {w}
        ELSE IF p = NULL THEN {Stop(w, "crashed")}
        ELSE IF ~w.heap[p].live THEN MayCrash(w, "use_after_free")
        ELSE LET cap == Len(w.heap[p].cells)
                 fits == Min(Len(src), cap - off)
                 w1 == [w EXCEPT !.heap[p].cells =
                          Sub(@, 1, off) \o Sub(src, 1, fits) \o Sub(@, off + fits + 1, cap)]
             IN  IF fits < Len(src) THEN MayCrash(w1, "oob_write") ELSE {w1}

\* std::ceil(length * 1.125).
GrowSize(n) == (n * 9 + 7) \div 8

\* The slot put writes: old_length + 1 + index for a negative index.
PutSlot(old_length, index) ==
    IF index < 0 THEN ToInt(old_length + 1 + index) ELSE index

\* put(input, index).
put(w, input, index) ==
    Then(checkIndexOrSize(w, index), LAMBDA w1 :
      Then(resize(w1, GrowSize(w1.o.length)), LAMBDA w2 :
        store(w2, PutSlot(w1.o.length, index), Cell(input))))

\* The pointer pop hands to delete: m_data + (length + 1 + index), or
\* m_data + index.
PopSlot(length, index) ==
    IF index < 0 THEN ToInt(length + 1 + index) ELSE index

\* delete (m_data + idx): of null it does nothing; of m_data itself it
\* releases the block; of any other pointer it is undefined.
deleteAt(w, idx) ==
    LET p == w.o.m_data
    IN  IF idx # 0 THEN MayCrash(w, "invalid_free")
        ELSE IF p = NULL THEN {w}
        ELSE IF w.heap[p].live THEN {[w EXCEPT !.heap = Delete(@, p)]}
        ELSE MayCrash(w, "double_free")

\* pop(index): length - 1 is computed in size_t.
pop(w, index) ==
    Then(checkIndexOrSize(w, index), LAMBDA w1 :
      Then(deleteAt(w1, PopSlot(w1.o.length, index)), LAMBDA w2 :
        resize(w2, ToSize(w2.o.length - 1))))

\* A slip in the normalisation: pop's length + 1 + index.
IndexSlotOffByOne(length, index) ==
    IF index < 0 THEN ToInt(length + 1 + index) ELSE index

\* The slot operator[] refers to: length + index for a negative index.
IndexSlot(length, index) ==
    IF index < 0 THEN ToInt(length + index) ELSE index

\* operator[](index), read.
subscript(w, index) ==
    Then(checkIndexOrSize(w, index), LAMBDA w1 :
      load(w1, IndexSlot(w1.o.length, index)))

\* from_arr<N>(arr): resize(N), then m_data[i] = arr[i] for i < N.
from_arr(w, src) ==
    Then(resize(w, Len(src)), LAMBDA w1 : storeRange(w1, 0, src))

\* from_arr(arr, arr_len) through a raw pointer: arr[i] is read whatever the
\* size of the block arr points to.
from_arr_ptr(w, arr, arr_len) ==
    Then(resize(w, arr_len), LAMBDA w1 :
      IF arr_len = 0 THEN {w1}
      ELSE IF arr = NULL THEN {Stop(w1, "crashed")}
      ELSE UNION {storeRange(FaultIf(w1, arr_len > Len(w1.heap[arr].cells), "oob_read"), 0, src)
                   : src \in ReadRange(w1.heap, arr, arr_len)})

\* The count to_arr copies: length + new_sz for a negative new_sz.
ToArrCount(length, new_sz) ==
    IF new_sz < 0 THEN ToInt(length + new_sz) ELSE new_sz

\* to_arr(new_sz): the new buffer's address is left in r.
to_arr(w, new_sz) ==
    Then(checkIndexOrSize(w, new_sz), LAMBDA w1 :
      LET n == ToArrCount(w1.o.length, new_sz)
      IN  IF new_sz = 0 THEN {[w1 EXCEPT !.r = NULL]}
          ELSE IF AllocFails(n) THEN {Stop(w1, "bad_alloc")}
          ELSE IF NoRoom(w1.heap) THEN {}
          ELSE IF n > 0 /\ w1.o.m_data = NULL THEN {Stop(w1, "crashed")}
          ELSE {[FaultIf(w1, n > 0 /\ n > Len(w1.heap[w1.o.m_data].cells), "oob_read")
                  EXCEPT !.heap = New(@, cells), !.r = NewAddr(w1.heap)]
                 : cells \in ReadRange(w1.heap, w1.o.m_data, n)})

\* The elements operator+ copies from the other operand: old_length of them.
ConcatCount(old_length, other_length) == old_length

\* operator+(other): resize(length + other.length), then
\* std::copy(other.m_data, other.m_data + old_length, m_data + old_length).
concat(w, other) ==
    LET old_length == w.o.length
        n == ConcatCount(old_length, other.length)
    IN  Then(resize(w, ToSize(old_length + other.length)), LAMBDA w1 :
          IF n = 0 THEN {w1}
          ELSE IF other.m_data = NULL THEN {Stop(w1, "crashed")}
          ELSE UNION {storeRange(FaultIf(w1, n > Len(w1.heap[other.m_data].cells), "oob_read"),
                                 old_length, src)
                       : src \in ReadRange(w1.heap, other.m_data, n)})

\* SmartArray(SmartArray<T>& other): a new buffer with other's elements.
CopyCtor(h, other) ==
    IF NoRoom(h) THEN {}
    ELSE {World(New(h, cells), Obj(NewAddr(h), other.length), "running", {})
           : cells \in ReadRange(h, other.m_data, other.length)}

\* ~SmartArray(): delete[] m_data.
Destroy(w) == Release(w, w.o.m_data)

\* ------------------------------------------------------ SmartArrayReverse
\* The index reverse() hands to buffer's operator[]: -i-1 in size_t,
\* converted to int.
RevIndex(i) == ToInt(ToSize(-i - 1))

RECURSIVE RevLoop(_, _, _)
\* The loop of reverse(), from i on: buffer[-i-1] = iter[i].  w.o is iter.
RevLoop(w, buffer, i) ==
    IF i >= w.o.length THEN {w}
    ELSE Then(subscript(w, i), LAMBDA w1 :
           Then(checkIndexOrSize([w1 EXCEPT !.o = buffer], RevIndex(i)), LAMBDA w2 :
             Then(store(w2, IndexSlot(buffer.length, RevIndex(i)), w1.r.cell), LAMBDA w3 :
               RevLoop([w3 EXCEPT !.o = w.o], buffer, i + 1))))

\* reverse(): fills a buffer of iter.length cells, copies it over iter's and
\* destroys it.
reverse(w) ==
    IF NoRoom(w.heap) THEN {}
    ELSE LET wb == LengthCtor(w.heap, w.o.length)
         IN  Then(RevLoop([w EXCEPT !.heap = wb.heap], wb.o, 0), LAMBDA w1 :
               LET cells == w1.heap[wb.o.m_data].cells
                   w2 == IF w1.o.length = 0 THEN w1
                         ELSE [w1 EXCEPT !.heap[w1.o.m_data].cells = cells]
               IN  Release(w2, wb.o.m_data))

\* SmartArrayReverse(SmartArray<T> arr): iter{arr}{reverse();}.  The argument
\* is a copy of the source, destroyed when the constructor returns.
ReverseCtor(h, source) ==
    UNION {
      UNION {
        Then(reverse(wi), LAMBDA w1 : Release(w1, warr.o.m_data))
        : wi \in CopyCtor(warr.heap, warr.o)}
      : warr \in CopyCtor(h, source)}

\* ------------------------------------------------------------ the program
NoLog == <<-1>>
NoRev == [built |-> FALSE, m_data |-> NULL, length |-> 0]
Call(op, index, val, len, faults) ==
    [op |-> op, index |-> index, val |-> val, len |-> len, faults |-> faults, r |-> 0]

\* SmartArray<int> a or a(na); SmartArray<int> b or b(nb): -1 stands for the
\* default constructor.
Construct(na, nb) ==
    LET wa == IF na < 0 THEN DefaultCtor(EmptyHeap) ELSE LengthCtor(EmptyHeap, na)
        wb == IF nb < 0 THEN DefaultCtor(wa.heap) ELSE LengthCtor(wa.heap, nb)
    IN  /\ heap = wb.heap
        /\ a = wa.o
        /\ b = wb.o
        /\ rev = NoRev
        /\ out = NULL
        /\ status = "running"
        /\ last = Call("ctor", 0, 0, 0, {})
        /\ log = IF na < 0 THEN <<>> ELSE NoLog

\* The arguments the callers pass.
Indices == -MaxIndex..MaxIndex
Lits == UNION {[1..n -> {Cell(x) : x \in Values}] : n \in 1..MaxLit}

\* A call on a: its outcome w becomes the next state.
CallOnA(w, op, index, val) ==
    /\ heap' = w.heap
    /\ a' = w.o
    /\ status' = w.st
    /\ last' = Call(op, index, val, a.length, w.faults)

\* A call on b.
CallOnB(w, op, index) ==
    /\ heap' = w.heap
    /\ b' = w.o
    /\ status' = w.st
    /\ last' = Call(op, index, 0, b.length, w.faults)

Start(o) == World(heap, o, "running", {})

\* a.put(v, i) with an explicit index.
Put(v, i) ==
    /\ status = "running"
    /\ a.length < MaxCells
    /\ \E w \in put(Start(a), v, i) : CallOnA(w, "put", i, v)
    /\ log' = NoLog
    /\ UNCHANGED <<b, rev, out>>

\* a.append(v): put(v) with the default index -1.
appendUpTo(v, max) ==
    /\ status = "running"
    /\ GrowSize(a.length) <= max
    /\ \E w \in put(Start(a), v, -1) : CallOnA(w, "append", -1, v)
    /\ log' = IF log = NoLog THEN NoLog ELSE Append(log, v)
    /\ UNCHANGED <<b, rev, out>>

append(v) == appendUpTo(v, MaxCells)

\* a.pop(i); a.pop() is a.pop(-1).
Pop(i) ==
    /\ status = "running"
    /\ \E w \in pop(Start(a), i) : CallOnA(w, "pop", i, 0)
    /\ log' = NoLog
    /\ UNCHANGED <<b, rev, out>>

\* x = a[i].
Get(i) ==
    /\ status = "running"
    /\ \E w \in subscript(Start(a), i) :
         /\ heap' = w.heap
         /\ a' = w.o
         /\ status' = w.st
         /\ last' = [Call("get", i, 0, a.length, w.faults) EXCEPT !.r = w.r]
    /\ UNCHANGED <<b, rev, out, log>>

\* a.erase().
Erase ==
    /\ status = "running"
    /\ CallOnA(erase(Start(a)), "erase", 0, 0)
    /\ log' = NoLog
    /\ UNCHANGED <<b, rev, out>>

\* a.from_arr<N>(literal).
FromArrA(src) ==
    /\ status = "running"
    /\ \E w \in from_arr(Start(a), src) : CallOnA(w, "from_arr", Len(src), 0)
    /\ log' = NoLog
    /\ UNCHANGED <<b, rev, out>>

\* b.from_arr<N>(literal).
FromArrB(src) ==
    /\ status = "running"
    /\ \E w \in from_arr(Start(b), src) : CallOnB(w, "from_arr_b", Len(src))
    /\ UNCHANGED <<a, rev, out, log>>

\* out = a.to_arr(n); a.to_arr() is a.to_arr(-1).
ToArr(n) ==
    /\ status = "running"
    /\ out = NULL
    /\ \E w \in to_arr(Start(a), n) : CallOnA(w, "to_arr", n, 0) /\ out' = w.r
    /\ UNCHANGED <<b, rev, log>>

\* b.from_arr(out, a.length): the second half of the round trip.
FromArrOut ==
    /\ status = "running"
    /\ last.op = "to_arr"
    /\ \E w \in from_arr_ptr(Start(b), out, a.length) : CallOnB(w, "from_arr_out", a.length)
    /\ UNCHANGED <<a, rev, out, log>>

\* delete[] out, by the caller.
FreeOut ==
    /\ status = "running"
    /\ out # NULL
    /\ heap' = Delete(heap, out)
    /\ out' = NULL
    /\ last' = Call("free_out", 0, 0, a.length, {})
    /\ UNCHANGED <<a, b, rev, status, log>>

\* a + b.
Concat ==
    /\ status = "running"
    /\ a.length <= MaxLit /\ b.length <= MaxLit
    /\ \E w \in concat(Start(a), b) : CallOnA(w, "concat", b.length, 0)
    /\ log' = NoLog
    /\ UNCHANGED <<b, rev, out>>

\* SmartArrayReverse<int> rev(a).
Reverse ==
    /\ status = "running"
    /\ ~rev.built
    /\ \E w \in ReverseCtor(heap, a) :
         /\ heap' = w.heap
         /\ rev' = [built |-> TRUE, m_data |-> w.o.m_data, length |-> w.o.length]
         /\ status' = w.st
         /\ last' = Call("reverse", 0, 0, a.length, w.faults)
    /\ UNCHANGED <<a, b, out, log>>

\* rev goes out of scope: ~SmartArray() of its iter (its base holds no buffer).
DestroyRev ==
    /\ status = "running"
    /\ rev.built
    /\ \E w \in Destroy(Start(Obj(rev.m_data, rev.length))) :
         /\ heap' = w.heap
         /\ status' = w.st
         /\ last' = Call("destroy_rev", 0, 0, a.length, w.faults)
    /\ rev' = NoRev
    /\ UNCHANGED <<a, b, out, log>>

\* main returns: rev (if any), b and a are destroyed.
Exit ==
    /\ status = "running"
    /\ \E w \in Then(Then(Destroy(Start(Obj(rev.m_data, rev.length))),
                          LAMBDA w1 : Destroy([w1 EXCEPT !.o = b])),
                     LAMBDA w2 : Destroy([w2 EXCEPT !.o = a])) :
         /\ heap' = w.heap
         /\ status' = IF w.st = "running" THEN "exited" ELSE w.st
         /\ last' = Call("exit", 0, 0, a.length, w.faults)
    /\ UNCHANGED <<a, b, rev, out, log>>

\* ------------------------------------------------------------- properties
\* The buffer of o in heap h, and its element values.
Buf(h, o) == IF o.m_data = NULL THEN <<>> ELSE h[o.m_data].cells
Vals(cells) == [i \in 1..Len(cells) |-> cells[i].v]
\* o is a well-formed container: no buffer and length 0, or a live buffer of
\* exactly length cells.
WellFormed(h, o) ==
    IF o.m_data = NULL THEN o.length = 0
    ELSE h[o.m_data].live /\ Len(h[o.m_data].cells) = o.length
OutOfRange(length, index) == index >= length \/ index < -length
BadRelease == {"double_free", "invalid_free"}
\* The blocks still allocated that no pointer of the program refers to.
Leaked ==
    {k \in Addr : heap[k].live /\ k \notin {a.m_data, b.m_data, rev.m_data, out}}

\* C1: append(v) on any container, the empty one included, adds exactly one
\* to length and leaves v in the new last position.
C1_AppendAddsOne ==
    last.op = "append" =>
        /\ status = "running"
        /\ a.length = last.len + 1
        /\ WellFormed(heap, a)
        /\ Buf(heap, a)[a.length].v = last.val

\* C2: after n appends of v1..vn to a default-constructed container, length
\* is n and position k-1 holds vk for every k in 1..n.
C2_AppendsKept ==
    log # NoLog =>
        /\ status = "running"
        /\ a.length = Len(log)
        /\ WellFormed(heap, a)
        /\ Vals(Buf(heap, a)) = log

\* C3: operator[] or pop with index >= length or index < -length fails with
\* the bounds error and leaves length, buffer and elements as they were
\* (the buffer is not released).
C3_OutOfRangeRejected ==
    [][(/\ last'.op \in {"get", "pop"}
        /\ WellFormed(heap, a)
        /\ OutOfRange(last'.len, last'.index))
       => (/\ status' = "terminated"
           /\ a' = a
           /\ heap' = heap)]_vars

\* C4: on a container of length L > 0, operator[](i) refers to slot i for
\* 0 <= i < L and to slot L + i for -L <= i < 0 (-1 the last element, -L the
\* first), and raises no error; the element read is the one the buffer
\* holds there.
C4_ValidIndexRefersToSlot ==
    (/\ last.op = "get"
     /\ last.len > 0
     /\ ~OutOfRange(last.len, last.index))
    => /\ status = "running"
       /\ last.r.off = (IF last.index >= 0 THEN last.index ELSE last.len + last.index)
       /\ WellFormed(heap, a) => last.r.cell = Buf(heap, a)[last.r.off + 1]

\* A negative valid index other than -1 was resolved on a container of three
\* elements, the last two different.
C4_Witness ==
    /\ last.op = "get"
    /\ status = "running"
    /\ WellFormed(heap, a)
    /\ a.length = 3
    /\ last.index = -2
    /\ last.r.off = 1
    /\ Buf(heap, a)[2].v # Buf(heap, a)[3].v

\* C5: a + b leaves in a its old elements followed by all of b's, in order,
\* with length a.length + b.length; b is unchanged; nothing is read outside
\* b's buffer or written outside a's new buffer.
C5_ConcatIsAThenB ==
    [][(/\ last'.op = "concat"
        /\ WellFormed(heap, a)
        /\ WellFormed(heap, b))
       => (/\ status' = "running"
           /\ a'.length = a.length + b.length
           /\ WellFormed(heap', a')
           /\ Vals(Buf(heap', a')) = Vals(Buf(heap, a)) \o Vals(Buf(heap, b))
           /\ b' = b
           /\ Buf(heap', b') = Buf(heap, b)
           /\ last'.faults \cap {"oob_read", "oob_write"} = {})]_vars

\* C6: pop() on a container of length L >= 1 leaves length L - 1 and the old
\* elements 0..L-2 in order; popping the only element leaves a valid empty
\* container.
C6_PopTruncates ==
    [][(/\ last'.op = "pop"
        /\ last'.index = -1
        /\ WellFormed(heap, a)
        /\ a.length >= 1)
       => (/\ status' = "running"
           /\ a'.length = a.length - 1
           /\ WellFormed(heap', a')
           /\ Vals(Buf(heap', a')) = Sub(Vals(Buf(heap, a)), 1, a.length - 1))]_vars

\* C7: to_arr() with its default count followed by from_arr(buffer, length)
\* on another container reproduces the length and the elements, and leaves
\* the source unchanged.
C7_RoundTrip ==
    [][(/\ last.op = "to_arr"
        /\ last.index = -1
        /\ last'.op = "from_arr_out"
        /\ WellFormed(heap, a))
       => (/\ status' = "running"
           /\ b'.length = a.length
           /\ WellFormed(heap', b')
           /\ Vals(Buf(heap', b')) = Vals(Buf(heap, a))
           /\ a' = a
           /\ Buf(heap', a') = Buf(heap, a))]_vars

\* The cells the view iterates.
RevCells(h, r) == Buf(h, Obj(r.m_data, r.length))
Reversed(cells) == [i \in 1..Len(cells) |-> cells[Len(cells) + 1 - i]]

\* C8: constructing the view over a source of length L yields L cells with
\* snapshot[i] = source[L - 1 - i] and leaves the source as it was; a later
\* put, append or pop on the source that returns leaves the cells the view
\* iterates as they were.
C8_ReverseIsSnapshot ==
    [][/\ (~rev.built /\ rev'.built /\ WellFormed(heap, a))
          => (/\ status' = "running"
              /\ rev'.length = a.length
              /\ WellFormed(heap', Obj(rev'.m_data, rev'.length))
              /\ RevCells(heap', rev') = Reversed(Buf(heap, a))
              /\ a' = a
              /\ Buf(heap', a') = Buf(heap, a))
       /\ (rev.built /\ last'.op \in {"put", "append", "pop"} /\ status' = "running")
          => (/\ rev' = rev
              /\ heap'[rev.m_data] = heap[rev.m_data])]_vars

\* The same, for a view whose buffer is allocated and is not the block the
\* source's m_data points to (pop(0) leaves m_data pointing to a released
\* block, which the allocator may hand to the view).
C8_OnDisjointBuffers ==
    [][/\ (~rev.built /\ rev'.built /\ WellFormed(heap, a))
          => (/\ status' = "running"
              /\ rev'.length = a.length
              /\ WellFormed(heap', Obj(rev'.m_data, rev'.length))
              /\ RevCells(heap', rev') = Reversed(Buf(heap, a))
              /\ rev'.m_data # a.m_data
              /\ a' = a
              /\ Buf(heap', a') = Buf(heap, a))
       /\ (/\ rev.built
           /\ heap[rev.m_data].live
           /\ rev.m_data # a.m_data
           /\ last'.op \in {"put", "append", "pop"}
           /\ status' = "running")
          => (/\ rev' = rev
              /\ heap'[rev.m_data] = heap[rev.m_data])]_vars

\* C9: every buffer is released exactly once: no call releases a pointer
\* that is not an allocated block or releases a block twice, and no block
\* stays allocated that the program cannot reach, also after destruction.
C9_ReleasedExactlyOnce ==
    /\ last.faults \cap BadRelease = {}
    /\ status = "running" => Leaked = {}
    /\ status = "exited" => \A k \in Addr : heap[k].live => k = out

\* C10: length = 0 implies no buffer; length > 0 implies a live buffer of
\* exactly length cells, each holding a determinate value.
C10_BufferMatchesLength ==
    status = "running" =>
        /\ a.length = 0 => a.m_data = NULL
        /\ a.length > 0 =>
             /\ WellFormed(heap, a)
             /\ \A i \in 1..a.length : Buf(heap, a)[i].init

\* ---------------------------------------------------------- specifications
\* One container and its whole interface.
Init == \E na \in -1..MaxInit : Construct(na, -1)

Next ==
    \/ \E v \in Values, i \in Indices : Put(v, i)
    \/ \E v \in Values : append(v)
    \/ \E i \in Indices : Pop(i)
    \/ \E i \in Indices : Get(i)
    \/ Erase
    \/ \E src \in Lits : FromArrA(src)
    \/ Exit

Spec == Init /\ [][Next]_vars

\* Appends only, up to MaxGrow elements.
InitGrow == \E na \in -1..(MaxGrow - 2) : Construct(na, -1)

NextGrow == \E v \in Values : appendUpTo(v, MaxGrow)

SpecGrow == InitGrow /\ [][NextGrow]_vars

\* Two containers and operator+.
InitConcat == \E na, nb \in -1..MaxInit : Construct(na, nb)

NextConcat ==
    \/ \E src \in Lits : FromArrA(src)
    \/ \E src \in Lits : FromArrB(src)
    \/ \E v \in Values : append(v)
    \/ Concat

SpecConcat == InitConcat /\ [][NextConcat]_vars

\* to_arr on a, from_arr on b.
NextRoundTrip ==
    \/ \E src \in Lits : FromArrA(src)
    \/ \E n \in Indices : ToArr(n)
    \/ FromArrOut
    \/ FreeOut

SpecRoundTrip == InitConcat /\ [][NextRoundTrip]_vars

\* A container and its reversed view.
NextReverse ==
    \/ \E v \in Values, i \in Indices : Put(v, i)
    \/ \E i \in Indices : Pop(i)
    \/ Reverse
    \/ DestroyRev

SpecReverse == Init /\ [][NextReverse]_vars
====
